---- MODULE Spec2Model ----
(***************************************************************************)
(* Model of scripts/collect_all.py (the ingest / merge / quote-extraction   *)
(* pipeline) together with the id assignment and the import guards of      *)
(* scripts/cspan_collector.py and scripts/whitehouse_collector.py.          *)
(*                                                                         *)
(* Python str values are TLA+ strings; a character is a string of length 1. *)
(* Python lists are sequences.  A dict that may lack the key                *)
(* 'extractedQuotes' carries the flag hasQuotes beside the field.           *)
(***************************************************************************)
EXTENDS Integers, Sequences, FiniteSets, TLC

VARIABLES
    disk,       \* data/transcripts.json: absent, truncated, or a whole document
    pc,         \* position of the running process in main(), or "idle"
    runs,       \* number of processes started so far
    seed,       \* the str-hash seed of the running process (PYTHONHASHSEED)
    existing,   \* main: existing
    all_new,    \* main: all_new
    merged,     \* main: merged
    added,      \* merge_transcripts: the count it reports
    status      \* how the last process ended

vars == <<disk, pc, runs, seed, existing, all_new, merged, added, status>>

-----------------------------------------------------------------------------
(* Characters and strings *)

Char(s, i) == SubSeq(s, i, i)

UpperChars == "ABCDEFGHIJKLMNOPQRSTUVWXYZ"
LowerChars == "abcdefghijklmnopqrstuvwxyz"
DigitChars == "0123456789"
HexChars == "0123456789abcdef"

CharsOf(s) == {Char(s, i) : i \in 1..Len(s)}

\* \w of the re module, on ASCII text
WordChars == CharsOf(UpperChars) \cup CharsOf(LowerChars) \cup CharsOf(DigitChars) \cup {"_"}

\* what str.strip() removes
SpaceChars == {" ", "\t", "\n", "\r", "\f"}

\* the characters of the class [.!?]
Terminators == {".", "!", "?"}

LowerOf == [c \in CharsOf(UpperChars) |->
              Char(LowerChars, CHOOSE i \in 1..26 : Char(UpperChars, i) = c)]

lower_char(c) == IF c \in DOMAIN LowerOf THEN LowerOf[c] ELSE c

Range(q) == {q[i] : i \in 1..Len(q)}

MinOf(S) == CHOOSE x \in S : \A y \in S : x <= y
MaxOf(S) == CHOOSE x \in S : \A y \in S : y <= x

\* str.strip()
strip(s) ==
    LET keep == {i \in 1..Len(s) : Char(s, i) \notin SpaceChars}
    IN  IF keep = {} THEN "" ELSE SubSeq(s, MinOf(keep), MaxOf(keep))

\* the k-th smallest element of a set of integers
Nth(S, k) == CHOOSE x \in S : Cardinality({y \in S : y < x}) = k - 1

\* re.split(r'[.!?]+', text): a piece starts at 1 and after the last character
\* of every maximal run of terminators, and runs up to the next terminator.
split_sentences(text) ==
    LET marks == {j \in 1..Len(text) : Char(text, j) \in Terminators}
        starts == {1} \cup {j + 1 : j \in {m \in marks : m + 1 \notin marks}}
        stop(a) == LET after == {m \in marks : m >= a}
                   IN  IF after = {} THEN Len(text) ELSE MinOf(after) - 1
    IN  [k \in 1..Cardinality(starts) |->
            LET a == Nth(starts, k) IN SubSeq(text, a, stop(a))]

\* \b at the gap before position p: exactly one neighbour is a word character
is_word_at(s, p) == p >= 1 /\ p <= Len(s) /\ Char(s, p) \in WordChars
word_boundary(s, p) == is_word_at(s, p - 1) # is_word_at(s, p)

\* the word w stands at position i of s, letter case ignored (re.IGNORECASE)
word_at(s, i, w) ==
    \A k \in 1..Len(w) : lower_char(Char(s, i + k - 1)) = lower_char(Char(w, k))

\* the positions of s where \b matches
boundaries(s) == {p \in 1..(Len(s) + 1) : word_boundary(s, p)}

\* re.search(r'\b(w1|w2|...)\b', sentence, re.IGNORECASE), bounds being
\* boundaries(sentence)
re_search(words, sentence, bounds) ==
    \E i \in bounds :
      \E k \in 1..Len(words) :
         /\ i + Len(words[k]) \in bounds
         /\ word_at(sentence, i, words[k])

-----------------------------------------------------------------------------
(* The transcript texts of the pages the collectors read *)

RECURSIVE Rep(_, _)
Rep(s, n) == IF n = 0 THEN "" ELSE s \o Rep(s, n - 1)

RECURSIVE Numbered(_, _)
\* "We will never stop item i. " for i = from .. to
Numbered(from, to) ==
    IF from > to THEN ""
    ELSE "We will never stop item " \o ToString(from) \o ". " \o Numbered(from + 1, to)

Filler == "It was a nice sunny day. "

\* two sentences that qualify, one too short to, the rest matching no rule
TextA ==
    "They are an invasion at our border. We will never stop. "
    \o "Every single ALIEN will fight the fraud! "
    \o Rep(Filler, 17) \o "That was the end of it."

\* twelve sentences that qualify, among others that do not
TextLong ==
    Rep(Filler, 4) \o Numbered(1, 6) \o Rep(Filler, 4) \o Numbered(7, 12)
    \o "That was the end of it."

\* no sentence qualifies
TextNone == Rep(Filler, 20) \o "That was the end of it."

TextShort == "They never stop at the border. Too short a page."

\* sample sentences, each with its terminator, of which texts are composed
SentencePool == <<
    "We will never stop.",
    " They are an invasion at our border.",
    " It was a nice sunny day.",
    " The vote at the border was counted!",
    " We must secure the border right now?" >>

ScenarioText == SentencePool[1] \o SentencePool[2] \o SentencePool[3]

\* a sentence of 291 characters, to be completed to 300 and to 301
LongStem == "We will never stop " \o Rep("going on and on ", 17)

\* sentences at the limits of the length test, each matching a rhetoric rule
\* and padded with white space: trimmed they have 19, 20, 300 and 301
\* characters
EdgePool == <<
    "  We never stopped it .",
    " We never stopped one !",
    " " \o LongStem \o "right now ?",
    " " \o LongStem \o "right here." >>

RECURSIVE Concat(_)
Concat(q) == IF q = <<>> THEN "" ELSE Head(q) \o Concat(Tail(q))

\* the texts made of consecutive sentences of EdgePool
EdgeTexts == {Concat(SubSeq(EdgePool, a, b)) : a, b \in 1..Len(EdgePool)}

-----------------------------------------------------------------------------
(* run_analysis *)

quote_patterns == <<
    [words |-> <<"always", "never", "everyone", "no one", "every single", "all of", "none of">>,
     category |-> "absolutist-claims"],
    [words |-> <<"animal", "vermin", "pest", "infestation", "invasion", "flood", "alien">>,
     category |-> "dehumanizing-language"],
    [words |-> <<"destroy", "eliminate", "wipe out", "fight", "attack", "war on", "enemy">>,
     category |-> "violent-rhetoric"],
    [words |-> <<"immigrant", "border", "deportation", "migrant", "illegal", "alien">>,
     category |-> "immigration"],
    [words |-> <<"vote", "election", "ballot", "fraud", "rigged", "stolen">>,
     category |-> "election"] >>

RhetoricLabels == {"absolutist-claims", "dehumanizing-language", "violent-rhetoric"}

MinSentenceLen == 20
MaxSentenceLen == 300
MaxQuotes == 10

Reverse(q) == [i \in 1..Len(q) |-> q[Len(q) + 1 - i]]

RECURSIVE dedup(_)
\* the distinct elements of q, each at its first position
dedup(q) ==
    IF q = <<>> THEN <<>>
    ELSE LET front == dedup(SubSeq(q, 1, Len(q) - 1))
             last == q[Len(q)]
         IN  IF last \in Range(front) THEN front ELSE Append(front, last)

\* list(set(labels)): the elements once each, in the iteration order of a set
\* of str, which follows the process's str hashes and so its hash seed.
list_set(labels, hashseed) ==
    IF hashseed % 2 = 0 THEN dedup(labels) ELSE Reverse(dedup(labels))

\* the labels of the rules that match, in table order (lines 180-185)
matched_labels(sentence) ==
    LET bounds == boundaries(sentence)
        hit == SelectSeq(quote_patterns, LAMBDA p : re_search(p.words, sentence, bounds))
    IN  [i \in 1..Len(hit) |-> hit[i].category]

\* variant: the test of line 182 always taken
is_rhetoric_any(label) == TRUE

\* line 182
is_rhetoric(label) == label \in RhetoricLabels
is_topic(label) == label \notin RhetoricLabels

\* variant: the upper limit of line 174 left out
length_ok_lower(sentence) == ~(Len(sentence) < MinSentenceLen)

\* variant: the lower limit of line 174 left out
length_ok_upper(sentence) == ~(Len(sentence) > MaxSentenceLen)

\* line 174
length_ok(sentence) ==
    ~(Len(sentence) < MinSentenceLen \/ Len(sentence) > MaxSentenceLen)

\* variant: line 188 with len(categories) >= 1
keep_rule_any(rhetoric, categories) == rhetoric # <<>> \/ Len(categories) >= 1

\* line 188
keep_rule(rhetoric, categories) == rhetoric # <<>> \/ Len(categories) >= 2

quote_id(tid, n) == tid \o "-q" \o ToString(n)

\* lines 173-188 for one piece of the split: the stripped sentence, its two
\* label lists, and whether it is appended to quotes
scan(piece) ==
    LET sentence == strip(piece)
        ok == length_ok(sentence)
        labels == IF ok THEN matched_labels(sentence) ELSE <<>>
        rhetoric == SelectSeq(labels, is_rhetoric)
        categories == SelectSeq(labels, is_topic)
    IN  [text |-> sentence,
         rhetoric |-> rhetoric,
         categories |-> categories,
         appended |-> ok /\ keep_rule(rhetoric, categories)]

\* lines 189-195: the dict appended when the list holds n quotes already
make_quote(tid, n, scanned, hashseed) ==
    [id |-> quote_id(tid, n),
     text |-> scanned.text,
     categories |-> list_set(scanned.categories, hashseed),
     rhetoric |-> list_set(scanned.rhetoric, hashseed),
     factCheck |-> [rating |-> "unverified", source |-> "None", sourceUrl |-> "None"]]

\* the list quotes when the loop of lines 172-195 ends: one quote for each
\* piece that is appended, in the order of the pieces; the k-th is appended
\* when len(quotes) is k - 1.
all_quotes(scanned, tid, hashseed) ==
    LET hits == {i \in 1..Len(scanned) : scanned[i].appended}
    IN  [k \in 1..Cardinality(hits) |->
            make_quote(tid, k - 1, scanned[Nth(hits, k)], hashseed)]

\* variant: the slice of line 197 left out
head_quotes_all(quotes) == quotes

\* quotes[:10]
head_quotes(quotes) ==
    SubSeq(quotes, 1, IF Len(quotes) < MaxQuotes THEN Len(quotes) ELSE MaxQuotes)

\* scan of the pieces of the sample sentences, computed once and looked up
ScannedPieces ==
    [piece \in UNION {Range(split_sentences(s)) : s \in Range(SentencePool) \cup Range(EdgePool)}
        |-> scan(piece)]

scanned_piece(piece) ==
    IF piece \in DOMAIN ScannedPieces THEN ScannedPieces[piece] ELSE scan(piece)

\* lines 169-188 for one text: every piece of the split, scanned
scan_sentences(text) ==
    LET sentences == split_sentences(text)
    IN  [i \in 1..Len(sentences) |-> scanned_piece(sentences[i])]

\* scan_sentences of the texts the pages hold, computed once and looked up
ScannedPages == [text \in {TextA, TextLong, TextNone, TextShort} |-> scan_sentences(text)]

scanned_text(text) ==
    IF text \in DOMAIN ScannedPages THEN ScannedPages[text] ELSE scan_sentences(text)

\* lines 168-197 for one transcript
extract_quotes(transcript, hashseed) ==
    head_quotes(all_quotes(scanned_text(transcript.fullText), transcript.id, hashseed))

\* variant: line 161 tests that the key is missing
has_quotes_inverted(transcript) == ~transcript.hasQuotes

\* line 161: transcript.get('extractedQuotes') is truthy
has_quotes(transcript) == transcript.hasQuotes /\ transcript.extractedQuotes # <<>>

\* variant: lines 161-162 left out
analyse_transcript_always(transcript, hashseed) ==
    IF transcript.fullText = "" THEN transcript
    ELSE [transcript EXCEPT !.hasQuotes = TRUE,
                            !.extractedQuotes = extract_quotes(transcript, hashseed)]

\* the body of the loop of lines 160-198 for one transcript
analyse_transcript(transcript, hashseed) ==
    IF has_quotes(transcript) THEN transcript
    ELSE IF transcript.fullText = "" THEN transcript
    ELSE [transcript EXCEPT !.hasQuotes = TRUE,
                            !.extractedQuotes = extract_quotes(transcript, hashseed)]

run_analysis(transcripts, hashseed) ==
    [i \in 1..Len(transcripts) |-> analyse_transcript(transcripts[i], hashseed)]

-----------------------------------------------------------------------------
(* merge_transcripts *)

\* variant: the test of line 82 left out
merge_loop_all(new_transcripts, i, st) ==
    LET rest == SubSeq(new_transcripts, i, Len(new_transcripts))
    IN  [merged |-> st.merged \o rest,
         existing_ids |-> st.existing_ids \cup {rest[k].id : k \in 1..Len(rest)},
         added |-> st.added + Len(rest)]

\* variant: line 84 left out
merge_loop_no_add(new_transcripts, i, st) ==
    LET rest == SelectSeq(SubSeq(new_transcripts, i, Len(new_transcripts)),
                          LAMBDA t : t.id \notin st.existing_ids)
    IN  [merged |-> st.merged \o rest,
         existing_ids |-> st.existing_ids,
         added |-> st.added + Len(rest)]

RECURSIVE merge_loop(_, _, _)
\* lines 81-85 from new_transcripts[i] on; st is (merged, existing_ids, added)
merge_loop(new_transcripts, i, st) ==
    IF i > Len(new_transcripts) THEN st
    ELSE LET t == new_transcripts[i]
         IN  IF t.id \notin st.existing_ids
             THEN merge_loop(new_transcripts, i + 1,
                      [merged |-> Append(st.merged, t),
                       existing_ids |-> st.existing_ids \cup {t.id},
                       added |-> st.added + 1])
             ELSE merge_loop(new_transcripts, i + 1, st)

\* variant: existing_ids starts empty on line 77
merge_state_fresh(old, new_transcripts) ==
    merge_loop(new_transcripts, 1, [merged |-> old, existing_ids |-> {}, added |-> 0])

\* lines 77-85: the final (merged, existing_ids, added)
merge_state(old, new_transcripts) ==
    merge_loop(new_transcripts, 1,
               [merged |-> old,
                existing_ids |-> {old[k].id : k \in 1..Len(old)},
                added |-> 0])

merge_transcripts(old, new_transcripts) == merge_state(old, new_transcripts).merged

\* the number printed on line 87
merge_added(old, new_transcripts) == merge_state(old, new_transcripts).added

-----------------------------------------------------------------------------
(* save_transcripts and load_existing_transcripts *)

EmptyDict == [k \in {} |-> 0]

\* variant: d[key] = 1, the count so far forgotten
count_into_one(d, key) ==
    [k \in DOMAIN d \cup {key} |-> IF k = key THEN 1 ELSE d[k]]

\* d[key] = d.get(key, 0) + 1
count_into(d, key) ==
    IF key \in DOMAIN d THEN [d EXCEPT ![key] = @ + 1] ELSE d @@ (key :> 1)

RECURSIVE count_all(_, _, _)
count_all(d, keys, i) ==
    IF i > Len(keys) THEN d ELSE count_all(count_into(d, keys[i]), keys, i + 1)

\* t.get('speakerId', 'unknown')
speaker_of(transcript) ==
    IF "speakerId" \in DOMAIN transcript THEN transcript.speakerId ELSE "unknown"

\* t.get('extractedQuotes', [])
quotes_of(transcript) == IF transcript.hasQuotes THEN transcript.extractedQuotes ELSE <<>>

RECURSIVE stats_loop(_, _, _)
\* lines 43-51 from transcripts[i] on
stats_loop(transcripts, i, st) ==
    IF i > Len(transcripts) THEN st
    ELSE LET t == transcripts[i]
             qs == quotes_of(t)
             RECURSIVE over_quotes(_, _, _)
             over_quotes(d, k, field) ==
                 IF k > Len(qs) THEN d
                 ELSE over_quotes(count_all(d, qs[k][field], 1), k + 1, field)
         IN  stats_loop(transcripts, i + 1,
                 [bySpeaker |-> count_into(st.bySpeaker, speaker_of(t)),
                  byTopic |-> over_quotes(st.byTopic, 1, "categories"),
                  byRhetoric |-> over_quotes(st.byRhetoric, 1, "rhetoric")])

RECURSIVE sum_quotes(_, _)
sum_quotes(transcripts, i) ==
    IF i > Len(transcripts) THEN 0
    ELSE Len(quotes_of(transcripts[i])) + sum_quotes(transcripts, i + 1)

\* lines 60-66
stats_of(transcripts) ==
    LET by == stats_loop(transcripts, 1,
                  [bySpeaker |-> EmptyDict, byTopic |-> EmptyDict, byRhetoric |-> EmptyDict])
    IN  [totalTranscripts |-> Len(transcripts),
         totalQuotes |-> sum_quotes(transcripts, 1),
         bySpeaker |-> by.bySpeaker,
         byTopic |-> by.byTopic,
         byRhetoric |-> by.byRhetoric]

NoStats == stats_of(<<>>)

\* the states of data/transcripts.json
NoFile == [state |-> "absent", transcripts |-> <<>>, lastUpdated |-> 0, stats |-> NoStats]

\* after open(transcripts_file, 'w') and before json.dump has written it all
TruncatedFile == [state |-> "truncated", transcripts |-> <<>>, lastUpdated |-> 0, stats |-> NoStats]

\* lines 53-67, written out whole; now stands for datetime.now()
document(transcripts, now) ==
    [state |-> "whole", transcripts |-> transcripts, lastUpdated |-> now,
     stats |-> stats_of(transcripts)]

\* load_existing_transcripts, for a file that is absent or whole
load_existing_transcripts(file) ==
    IF file.state = "whole" THEN file.transcripts ELSE <<>>

-----------------------------------------------------------------------------
(* Transcript ids: f"cspan-{hash(url) & 0xFFFFFFFF:08x}" *)

HashSeeds == {0, 1}

HashAlphabet == LowerChars \o DigitChars \o ":/.-"

CodeOf == [c \in CharsOf(HashAlphabet) |->
             CHOOSE i \in 1..Len(HashAlphabet) : Char(HashAlphabet, i) = c]

\* the code point of a character
char_code(c) == IF c \in DOMAIN CodeOf THEN CodeOf[c] ELSE 0

Byte == 256

RECURSIVE hash_from(_, _, _, _)
hash_from(s, i, h, mult) ==
    IF i > Len(s) THEN h
    ELSE hash_from(s, i + 1, (h * mult + char_code(Char(s, i))) % Byte, mult)

\* hash(s) of a str: a keyed hash whose key is drawn when the process starts.
\* The value is held as bytes, most significant first; the mixing stands for
\* the interpreter's keyed hash, of which only "a function of the key and the
\* string" is used.
str_hash(hashseed, s) ==
    << hash_from(s, 1, (hashseed * 211 + 3) % Byte, 29),
       hash_from(s, 1, (hashseed * 157 + 7) % Byte, 31),
       hash_from(s, 1, (hashseed * 101 + 11) % Byte, 33),
       hash_from(s, 1, (hashseed * 59 + 13) % Byte, 37),
       hash_from(s, 1, (hashseed * 17 + 19) % Byte, 41) >>

\* h & 0xFFFFFFFF: the low four bytes
mask32(h) == SubSeq(h, Len(h) - 3, Len(h))

\* one byte as two hexadecimal digits
hex_byte(b) == Char(HexChars, (b \div 16) + 1) \o Char(HexChars, (b % 16) + 1)

\* format(v, "08x") of a masked value
hex8(v) == hex_byte(v[1]) \o hex_byte(v[2]) \o hex_byte(v[3]) \o hex_byte(v[4])

transcript_id(prefix, hashseed, url) ==
    prefix \o "-" \o hex8(mask32(str_hash(hashseed, url)))

-----------------------------------------------------------------------------
(* The web as the collectors see it *)

CspanUrl1 == "https://www.c-span.org/video/1"
CspanUrl2 == "https://www.c-span.org/video/2"
WhUrl1 == "https://www.whitehouse.gov/briefing-room/1"
WhUrl2 == "https://www.whitehouse.gov/briefing-room/2"

CspanUrls == {CspanUrl1, CspanUrl2}
WhUrls == {WhUrl1, WhUrl2}

\* the transcript text each page yields
PageText ==
    (CspanUrl1 :> TextA) @@ (CspanUrl2 :> TextLong)
    @@ (WhUrl1 :> TextNone) @@ (WhUrl2 :> TextShort)

MinTranscriptLen == 500

MaxBatch == 2
MaxRuns == 2

SeqsUpTo(S, n) == UNION {[1..k -> S] : k \in 0..n}

IsInjective(q) == \A i, j \in 1..Len(q) : q[i] = q[j] => i = j

\* lines 209-211 of cspan_collector.py, 236-238 of whitehouse_collector.py
usable(text) == ~(text = "" \/ Len(text) < MinTranscriptLen)

\* cspan_collector.py, lines 213-225
cspan_record(url, hashseed) ==
    [id |-> transcript_id("cspan", hashseed, url),
     speakerId |-> "donald-trump",
     sourceUrl |-> url,
     fullText |-> PageText[url],
     hasQuotes |-> TRUE,
     extractedQuotes |-> <<>>]

\* whitehouse_collector.py, lines 243-255
wh_record(url, hashseed) ==
    [id |-> transcript_id("wh", hashseed, url),
     speakerId |-> "unknown",
     sourceUrl |-> url,
     fullText |-> PageText[url],
     hasQuotes |-> TRUE,
     extractedQuotes |-> <<>>]

\* collect_all_speakers over the search results of all speakers and terms
collect_all_speakers(results, hashseed) ==
    LET kept == SelectSeq(results, LAMBDA u : usable(PageText[u]))
    IN  [i \in 1..Len(kept) |-> cspan_record(kept[i], hashseed)]

\* collect_speeches over the listed articles
collect_speeches(articles, hashseed) ==
    LET kept == SelectSeq(articles, LAMBDA u : usable(PageText[u]))
    IN  [i \in 1..Len(kept) |-> wh_record(kept[i], hashseed)]

-----------------------------------------------------------------------------
(* main: one process per run, runs one after another.  The command line    *)
(* flags are read once each, at the step that tests them, and are drawn     *)
(* there: "selected" stands for args.all or the collector's own flag.       *)

Init ==
    /\ disk = NoFile
    /\ pc = "idle"
    /\ runs = 0
    /\ seed = 0
    /\ existing = <<>>
    /\ all_new = <<>>
    /\ merged = <<>>
    /\ added = 0
    /\ status = "none"

\* the process ends; its memory is gone
Exit(how) ==
    /\ pc' = "idle"
    /\ status' = how
    /\ seed' = 0
    /\ existing' = <<>>
    /\ all_new' = <<>>
    /\ merged' = <<>>
    /\ added' = 0

\* lines 217-221.  json.load raises on a file that is not a whole document,
\* and nothing catches it.
Load ==
    /\ pc = "idle"
    /\ runs < MaxRuns
    /\ runs' = runs + 1
    /\ UNCHANGED disk
    /\ IF disk.state = "truncated"
       THEN Exit("traceback")
       ELSE /\ \E h \in HashSeeds : seed' = h
            /\ existing' = load_existing_transcripts(disk)
            /\ all_new' = <<>>
            /\ merged' = <<>>
            /\ added' = 0
            /\ status' = "running"
            /\ pc' = "cspan"

\* lines 224-225 with collect_from_cspan (lines 91-103) and the import guard
\* of cspan_collector.py (lines 16-21)
CollectCspan ==
    /\ pc = "cspan"
    /\ UNCHANGED <<disk, runs>>
    /\ \/ \* not selected, or ImportError / Exception caught: no records
          /\ \E why \in {"not selected", "ImportError", "Exception"} : TRUE
          /\ pc' = "whitehouse"
          /\ UNCHANGED <<seed, existing, all_new, merged, added, status>>
       \/ \* requests or bs4 missing: the guard calls sys.exit(1); SystemExit
          \* is no Exception, so line 101 does not catch it
          Exit("sys.exit(1)")
       \/ \E results \in SeqsUpTo(CspanUrls, MaxBatch) :
             /\ all_new' = all_new \o collect_all_speakers(results, seed)
             /\ pc' = "whitehouse"
             /\ UNCHANGED <<seed, existing, merged, added, status>>

\* lines 227-228 with collect_from_whitehouse (lines 106-118) and the import
\* guard of whitehouse_collector.py (lines 19-24); get_briefing_room_articles
\* lists no url twice
CollectWhitehouse ==
    /\ pc = "whitehouse"
    /\ UNCHANGED <<disk, runs>>
    /\ \/ /\ \E why \in {"not selected", "ImportError", "Exception"} : TRUE
          /\ pc' = "youtube"
          /\ UNCHANGED <<seed, existing, all_new, merged, added, status>>
       \/ Exit("sys.exit(1)")
       \/ \E articles \in {q \in SeqsUpTo(WhUrls, MaxBatch) : IsInjective(q)} :
             /\ all_new' = all_new \o collect_speeches(articles, seed)
             /\ pc' = "youtube"
             /\ UNCHANGED <<seed, existing, merged, added, status>>

\* lines 230-235 with collect_from_youtube (lines 121-137): not selected, no
\* video list, ImportError or Exception: no records.  The module
\* youtube_transcripts is not among the sources, so the branch in which
\* collect_from_video_list returns records is left out.
CollectYoutube ==
    /\ pc = "youtube"
    /\ \E why \in {"not selected", "no list", "ImportError", "Exception"} : TRUE
    /\ pc' = "merge"
    /\ UNCHANGED <<disk, runs, seed, existing, all_new, merged, added, status>>

\* lines 238-242
Merge ==
    /\ pc = "merge"
    /\ IF all_new # <<>>
       THEN /\ merged' = merge_transcripts(existing, all_new)
            /\ added' = merge_added(existing, all_new)
       ELSE /\ merged' = existing
            /\ added' = 0
    /\ pc' = "analyze"
    /\ UNCHANGED <<disk, runs, seed, existing, all_new, status>>

\* lines 245-246
Analyze ==
    /\ pc = "analyze"
    /\ LET analysed == run_analysis(merged, seed)
       IN  \E analyze \in BOOLEAN :
              IF analyze \/ all_new # <<>>
              THEN merged' = analysed /\ status' = "analysed"
              ELSE merged' = merged /\ status' = status
    /\ pc' = "save"
    /\ UNCHANGED <<disk, runs, seed, existing, all_new, added>>

\* lines 249-250 and line 69: open(transcripts_file, 'w') empties the file
SaveOpen ==
    /\ pc = "save"
    /\ UNCHANGED runs
    /\ IF merged # <<>>
       THEN /\ disk' = TruncatedFile
            /\ pc' = "dump"
            /\ UNCHANGED <<seed, existing, all_new, merged, added, status>>
       ELSE /\ UNCHANGED disk
            /\ Exit("done")

\* line 70 to the end of main: the document is written out whole
SaveDump ==
    /\ pc = "dump"
    /\ disk' = document(merged, runs)
    /\ UNCHANGED runs
    /\ Exit("done")

\* the process is killed, or an exception nothing catches is raised
Crash ==
    /\ pc \notin {"idle"}
    /\ UNCHANGED <<disk, runs>>
    /\ Exit("killed")

Next ==
    \/ Load
    \/ CollectCspan
    \/ CollectWhitehouse
    \/ CollectYoutube
    \/ Merge
    \/ Analyze
    \/ SaveOpen
    \/ SaveDump
    \/ Crash

Spec == Init /\ [][Next]_vars

-----------------------------------------------------------------------------
(* merge_transcripts on arbitrary lists *)

MaxLen == 2

sample(id, text) ==
    [id |-> id, speakerId |-> "unknown", sourceUrl |-> "", fullText |-> text,
     hasQuotes |-> FALSE, extractedQuotes |-> <<>>]

\* two records that share an id and differ, and a third
MergeRecords == {sample("a", "first"), sample("a", "second"), sample("b", "third")}

MergeInit ==
    /\ disk = NoFile
    /\ pc = "merge"
    /\ runs = 0
    /\ seed = 0
    /\ existing \in SeqsUpTo(MergeRecords, MaxLen)
    /\ all_new \in SeqsUpTo(MergeRecords, MaxLen)
    /\ merged = <<>>
    /\ added = 0
    /\ status = "running"

\* merged = merge_transcripts(existing, all_new)
MergeOnce ==
    /\ pc = "merge"
    /\ merged' = merge_transcripts(existing, all_new)
    /\ added' = merge_added(existing, all_new)
    /\ pc' = "merged"
    /\ UNCHANGED <<disk, runs, seed, existing, all_new, status>>

\* the result is merged with the same incoming list once more; existing
\* keeps the first result
MergeAgain ==
    /\ pc = "merged"
    /\ existing' = merged
    /\ merged' = merge_transcripts(merged, all_new)
    /\ added' = merge_added(merged, all_new)
    /\ pc' = "remerged"
    /\ UNCHANGED <<disk, runs, seed, all_new, status>>

MergeNext == MergeOnce \/ MergeAgain

MergeSpec == MergeInit /\ [][MergeNext]_vars

-----------------------------------------------------------------------------
(* run_analysis on arbitrary transcripts *)

MaxSentences == 3
MaxAnalyses == 2

SampleTexts == {Concat(q) : q \in SeqsUpTo(Range(SentencePool), MaxSentences)} \cup EdgeTexts

\* quotes a transcript may carry that no extraction of its text yields
EarlierQuotes == <<
    [id |-> "tid-q7",
     text |-> "A quote somebody put here by hand",
     categories |-> <<"election">>,
     rhetoric |-> <<>>,
     factCheck |-> [rating |-> "true", source |-> "desk", sourceUrl |-> "None"]] >>

SampleTranscripts ==
    {[id |-> "tid", speakerId |-> "unknown", sourceUrl |-> "", fullText |-> text,
      hasQuotes |-> q[1], extractedQuotes |-> q[2]] :
        text \in SampleTexts,
        q \in {<<FALSE, <<>> >>, <<TRUE, <<>> >>, <<TRUE, EarlierQuotes>>}}

ExtractInit ==
    /\ disk = NoFile
    /\ pc = "analyze"
    /\ runs = 0
    /\ seed = 0
    /\ existing \in {<<t>> : t \in SampleTranscripts}
    /\ all_new = <<>>
    /\ merged = existing
    /\ added = 0
    /\ status = "running"

\* merged = run_analysis(merged), in a process of any hash seed; existing
\* keeps the list as it was before the first call
RunAnalysis ==
    /\ pc = "analyze"
    /\ runs < MaxAnalyses
    /\ runs' = runs + 1
    /\ \E h \in HashSeeds :
          /\ seed' = h
          /\ merged' = run_analysis(merged, h)
    /\ status' = "analysed"
    /\ UNCHANGED <<disk, pc, existing, all_new, added>>

ExtractNext == RunAnalysis

ExtractSpec == ExtractInit /\ [][ExtractNext]_vars

-----------------------------------------------------------------------------
(* save_transcripts on arbitrary lists *)

MaxSaved == 3

stats_quote(id, categories, rhetoric) ==
    [id |-> id, text |-> "They are an invasion at our border",
     categories |-> categories, rhetoric |-> rhetoric,
     factCheck |-> [rating |-> "unverified", source |-> "None", sourceUrl |-> "None"]]

\* transcripts of two speakers with quotes, one without the field
\* extractedQuotes, and one without the field speakerId
StatsRecords == {
    [id |-> "t1", speakerId |-> "donald-trump", sourceUrl |-> "", fullText |-> "",
     hasQuotes |-> TRUE,
     extractedQuotes |-> << stats_quote("t1-q0", <<"immigration">>, <<"dehumanizing-language">>),
                            stats_quote("t1-q1", <<"election", "immigration">>, <<>>) >>],
    [id |-> "t2", speakerId |-> "jd-vance", sourceUrl |-> "", fullText |-> "",
     hasQuotes |-> TRUE,
     extractedQuotes |-> << stats_quote("t2-q0", <<>>, <<"absolutist-claims", "violent-rhetoric">>) >>],
    [id |-> "t3", speakerId |-> "unknown", sourceUrl |-> "", fullText |-> "",
     hasQuotes |-> FALSE, extractedQuotes |-> <<>>],
    [id |-> "t4", sourceUrl |-> "", fullText |-> "",
     hasQuotes |-> TRUE, extractedQuotes |-> <<>>] }

\* main has reached line 249 with some list
StatsInit ==
    /\ disk = NoFile
    /\ pc = "save"
    /\ runs = 1
    /\ seed = 0
    /\ existing = <<>>
    /\ all_new = <<>>
    /\ merged \in SeqsUpTo(StatsRecords, MaxSaved)
    /\ added = 0
    /\ status = "running"

StatsNext == SaveOpen \/ SaveDump

StatsSpec == StatsInit /\ [][StatsNext]_vars

-----------------------------------------------------------------------------
(* Properties *)

ids(transcripts) == [i \in 1..Len(transcripts) |-> transcripts[i].id]

\* the records of incoming whose id is not in old and has not occurred earlier
\* in incoming, in the order of incoming
Novel(old, incoming) ==
    LET idx == {i \in 1..Len(incoming) :
                   /\ incoming[i].id \notin Range(ids(old))
                   /\ \A j \in 1..(i - 1) : incoming[j].id # incoming[i].id}
    IN  [k \in 1..Cardinality(idx) |-> incoming[Nth(idx, k)]]

\* C1: merging the same incoming list into the result of a merge a second
\* time returns that result: the same records in the same order, none added.
C1_MergeIdempotent ==
    pc = "remerged" => merged = existing /\ added = 0

\* a second merge was made with an incoming list that repeats an id and
\* holds a record whose id the other list has with another content
C1_Witness ==
    /\ pc = "remerged"
    /\ \E i, j \in 1..Len(all_new) : i # j /\ all_new[i].id = all_new[j].id
    /\ \E i \in 1..Len(all_new), j \in 1..Len(merged) :
          all_new[i].id = merged[j].id /\ all_new[i] # merged[j]

\* C2: the result of a merge is the existing list unchanged, followed by the
\* incoming records whose id is new, each id once at its first occurrence, in
\* incoming order; the reported count is the number of records appended.
C2_MergeAppendsNovel ==
    pc = "merged" =>
        /\ merged = existing \o Novel(existing, all_new)
        /\ added = Len(merged) - Len(existing)

\* existing [a] merged with incoming [a, b] gave [a, b], 1 added
C2_Witness ==
    /\ pc = "merged"
    /\ ids(existing) = <<"a">>
    /\ ids(all_new) = <<"a", "b">>
    /\ ids(merged) = <<"a", "b">>
    /\ added = 1

\* C3: in the list handed to save_transcripts no two records share an id.
C3_SavedIdsUnique ==
    pc = "dump" => IsInjective(ids(merged))

\* a list is being saved in a run that loaded a corpus and collected a batch
\* which repeats an id and holds an id of the corpus
C3_Witness ==
    /\ pc = "dump"
    /\ existing # <<>>
    /\ \E i, j \in 1..Len(all_new) : i # j /\ all_new[i].id = all_new[j].id
    /\ \E i \in 1..Len(all_new) : all_new[i].id \in Range(ids(existing))

\* C4: run_analysis leaves the extractedQuotes of a transcript that has
\* quotes as they were, however often it is called.
C4_QuotesKept ==
    runs >= 1 =>
        \A i \in 1..Len(existing) :
            has_quotes(existing[i]) =>
                /\ merged[i].hasQuotes
                /\ merged[i].extractedQuotes = existing[i].extractedQuotes

\* run_analysis was called twice on a transcript that came with quotes and
\* whose text yields another list of quotes
C4_Witness ==
    /\ runs >= 2
    /\ has_quotes(existing[1])
    /\ existing[1].fullText = ScenarioText

\* C5: a run that collects nothing over a corpus saved by an earlier run
\* saves the same transcripts and the same stats, whether or not it runs the
\* analysis again; only lastUpdated may differ.
C5_RerunSavesSame ==
    (pc = "save" /\ all_new = <<>> /\ disk.state = "whole") =>
        /\ document(merged, runs).transcripts = disk.transcripts
        /\ document(merged, runs).stats = disk.stats

\* such a run has run the analysis again, over a corpus holding a transcript
\* with quotes and one that was processed and has none
C5_Witness ==
    /\ pc = "save"
    /\ all_new = <<>>
    /\ status = "analysed"
    /\ disk.state = "whole"
    /\ \E i \in 1..Len(merged) : merged[i].hasQuotes /\ merged[i].extractedQuotes = <<>>
    /\ \E i \in 1..Len(merged) : Len(merged[i].extractedQuotes) >= 2

\* C6: a collector whose optional dependency is missing yields no records and
\* the run goes on: no process is ended by the collector's import guard.
C6_NeverAborted ==
    status # "sys.exit(1)"

\* C7: at every point the corpus file holds a whole corpus, the prior one or
\* the new one (or does not exist yet), never an emptied or partly written one.
C7_FileNeverTruncated ==
    disk.state \in {"absent", "whole"}

\* C8: a url has one id, in whatever process it is collected, and two urls
\* never have the same id: among the records loaded and collected, two have
\* the same url exactly if they have the same id.
C8_IdsFollowUrl ==
    \A r, t \in Range(existing) \cup Range(all_new) :
        (r.sourceUrl = t.sourceUrl) <=> (r.id = t.id)

quote_texts(quotes) == [k \in 1..Len(quotes) |-> quotes[k].text]
quote_ids(quotes) == [k \in 1..Len(quotes) |-> quotes[k].id]

\* the scenario transcript, without quotes, has been analysed
ScenarioAnalysed ==
    /\ runs >= 1
    /\ existing[1].fullText = ScenarioText
    /\ ~has_quotes(existing[1])

\* C9 as stated: the scenario text yields two quotes, sentence 1 and
\* sentence 2, with ids tid-q0 and tid-q1.
C9_TwoQuotes ==
    ScenarioAnalysed =>
        /\ quote_texts(merged[1].extractedQuotes) =
              <<"We will never stop", "They are an invasion at our border">>
        /\ quote_ids(merged[1].extractedQuotes) = <<"tid-q0", "tid-q1">>

\* C9 as the code has it: sentence 1 has 18 characters and is dropped by the
\* length test; the scenario text yields one quote, sentence 2, with id
\* tid-q0, rhetoric dehumanizing-language and category immigration.
C9_OneQuote ==
    ScenarioAnalysed =>
        /\ quote_texts(merged[1].extractedQuotes) = <<"They are an invasion at our border">>
        /\ quote_ids(merged[1].extractedQuotes) = <<"tid-q0">>
        /\ merged[1].extractedQuotes[1].rhetoric = <<"dehumanizing-language">>
        /\ merged[1].extractedQuotes[1].categories = <<"immigration">>

C9_Witness ==
    ScenarioAnalysed /\ Len(merged[1].extractedQuotes) = 1

\* a sentence qualifies: its length is admissible and it matches a rhetoric
\* rule or rules of two topic labels
Qualifies(sentence) ==
    LET bounds == boundaries(sentence)
        matches(k) == re_search(quote_patterns[k].words, sentence, bounds)
        rules == 1..Len(quote_patterns)
    IN  /\ Len(sentence) >= MinSentenceLen
        /\ Len(sentence) <= MaxSentenceLen
        /\ \/ \E k \in rules : quote_patterns[k].category \in RhetoricLabels /\ matches(k)
           \/ \E k, m \in rules :
                 /\ quote_patterns[k].category \notin RhetoricLabels
                 /\ quote_patterns[m].category \notin RhetoricLabels
                 /\ quote_patterns[k].category # quote_patterns[m].category
                 /\ matches(k) /\ matches(m)

\* the qualifying sentences of a text, in text order
QualifyingSentences(text) ==
    LET pieces == split_sentences(text)
        idx == {i \in 1..Len(pieces) : Qualifies(strip(pieces[i]))}
    IN  [k \in 1..Cardinality(idx) |-> strip(pieces[Nth(idx, k)])]

QualifyingOfPage == [u \in DOMAIN PageText |-> QualifyingSentences(PageText[u])]

\* C10: no transcript of a saved corpus has more than 10 quotes, and its
\* quotes are the first 10 qualifying sentences of its text, in text order,
\* with ids tid-q0, tid-q1, ...
C10_QuoteCap ==
    disk.state = "whole" =>
        \A i \in 1..Len(disk.transcripts) :
            LET t == disk.transcripts[i]
                q == QualifyingOfPage[t.sourceUrl]
                n == IF Len(q) < 10 THEN Len(q) ELSE 10
            IN  /\ Len(t.extractedQuotes) <= 10
                /\ quote_texts(t.extractedQuotes) = SubSeq(q, 1, n)
                /\ quote_ids(t.extractedQuotes) = [k \in 1..n |-> t.id \o "-q" \o ToString(k - 1)]

\* a saved transcript whose text has more than 10 qualifying sentences
C10_Witness ==
    /\ disk.state = "whole"
    /\ \E i \in 1..Len(disk.transcripts) :
          /\ Len(QualifyingOfPage[disk.transcripts[i].sourceUrl]) > 10
          /\ Len(disk.transcripts[i].extractedQuotes) = 10

\* t occurs in text as a run of consecutive characters
IsSegment(t, text) ==
    \E a \in 1..(Len(text) - Len(t) + 1) : SubSeq(text, a, a + Len(t) - 1) = t

\* a transcript that came without quotes has been analysed
Analysed == runs >= 1 /\ ~has_quotes(existing[1])

\* the trimmed lengths of the pieces into which the terminators cut a text
PieceLengths(text) ==
    LET pieces == split_sentences(text)
    IN  {Len(strip(pieces[i])) : i \in 1..Len(pieces)}

\* C11: the text of every quote run_analysis produces is a run of characters
\* of fullText with no white space at either end and has at least 20 and at
\* most 300 characters; a piece of 19 or of 301 characters is never a quote.
C11_QuoteLengthBound ==
    Analysed =>
        \A k \in 1..Len(merged[1].extractedQuotes) :
            LET t == merged[1].extractedQuotes[k].text
            IN  /\ Len(t) >= 20
                /\ Len(t) <= 300
                /\ Char(t, 1) \notin SpaceChars
                /\ Char(t, Len(t)) \notin SpaceChars
                /\ IsSegment(t, existing[1].fullText)

\* a text with padded pieces of 19, 20, 300 and 301 characters, each matching
\* a rhetoric rule, has been analysed: the pieces of 20 and 300 are its quotes
C11_Witness ==
    /\ Analysed
    /\ {19, 20, 300, 301} \subseteq PieceLengths(existing[1].fullText)
    /\ {Len(merged[1].extractedQuotes[k].text) : k \in 1..Len(merged[1].extractedQuotes)}
          = {20, 300}

\* every quote of every transcript of a list
QuotesIn(transcripts) ==
    UNION {Range(quotes_of(transcripts[i])) : i \in 1..Len(transcripts)}

\* C12: on every quote run_analysis produces, neither categories nor rhetoric
\* holds a label twice, rhetoric holds only the three rhetoric labels,
\* categories only topic labels, and no label is in both.
C12_LabelSets ==
    disk.state = "whole" =>
        \A q \in QuotesIn(disk.transcripts) :
            /\ IsInjective(q.categories)
            /\ IsInjective(q.rhetoric)
            /\ Range(q.rhetoric) \subseteq
                  {"absolutist-claims", "dehumanizing-language", "violent-rhetoric"}
            /\ Range(q.categories) \subseteq {"immigration", "election"}
            /\ Range(q.categories) \cap Range(q.rhetoric) = {}

\* a saved quote of a sentence that matches all five rules, one of its words
\* ("alien") being in a rhetoric rule and in a topic rule, its labels listed
\* in the order of a set
C12_Witness ==
    /\ disk.state = "whole"
    /\ \E q \in QuotesIn(disk.transcripts) :
          /\ q.text = "Every single ALIEN will fight the fraud"
          /\ q.rhetoric = <<"violent-rhetoric", "dehumanizing-language", "absolutist-claims">>
          /\ q.categories = <<"election", "immigration">>

\* the places (transcript, quote) of the quotes of a list
QuoteSlots(transcripts) ==
    UNION {{<<i, k>> : k \in 1..Len(quotes_of(transcripts[i]))} : i \in 1..Len(transcripts)}

\* the places of the quotes whose field (categories or rhetoric) holds label
SlotsWith(transcripts, field, label) ==
    {s \in QuoteSlots(transcripts) :
        label \in Range(quotes_of(transcripts[s[1]])[s[2]][field])}

ValueAt(d, key) == IF key \in DOMAIN d THEN d[key] ELSE 0

RECURSIVE SumOver(_, _)
SumOver(d, keys) ==
    IF keys = {} THEN 0
    ELSE LET k == CHOOSE x \in keys : TRUE IN d[k] + SumOver(d, keys \ {k})

AllLabels == {quote_patterns[k].category : k \in 1..Len(quote_patterns)}

\* C13: the stats written with a list of transcripts count its transcripts,
\* its quotes (none for a transcript without the field), one per transcript
\* in bySpeaker, and in byTopic / byRhetoric for each label the quotes whose
\* categories / rhetoric hold it; the list in any other order gives the same.
C13_StatsConsistent ==
    disk.state = "whole" =>
        LET ts == disk.transcripts
            st == disk.stats
        IN  /\ st.totalTranscripts = Len(ts)
            /\ st.totalQuotes = Cardinality(QuoteSlots(ts))
            /\ SumOver(st.bySpeaker, DOMAIN st.bySpeaker) = Len(ts)
            /\ \A l \in AllLabels \cup DOMAIN st.byTopic \cup DOMAIN st.byRhetoric :
                  /\ ValueAt(st.byTopic, l) = Cardinality(SlotsWith(ts, "categories", l))
                  /\ ValueAt(st.byRhetoric, l) = Cardinality(SlotsWith(ts, "rhetoric", l))
            /\ \A p \in Permutations(1..Len(ts)) :
                  stats_of([i \in 1..Len(ts) |-> ts[p[i]]]) = st

\* a list was saved that holds a transcript twice, one without the field
\* extractedQuotes between them, and a label in two quotes of one transcript
C13_Witness ==
    /\ disk.state = "whole"
    /\ ids(disk.transcripts) = <<"t1", "t3", "t1">>
    /\ disk.stats.totalQuotes = 4
    /\ disk.stats.byTopic["immigration"] = 4
    /\ disk.stats.bySpeaker["donald-trump"] = 2

\* C14: a run that ends without being killed ends in save_transcripts, called
\* once with the merged and analysed list and writing it, whatever the
\* collectors did; or it ends at line 249 with an empty list, and then there
\* was no corpus and no collector produced a record.
C14_RunEndsWithSave ==
    [][(pc # "idle" /\ pc' = "idle" /\ status' # "killed") =>
          \/ pc = "dump" /\ disk' = document(merged, runs)
          \/ /\ pc = "save"
             /\ merged = <<>>
             /\ disk.state = "absent"
             /\ all_new = <<>>]_vars

\* C15: after run_analysis has visited a transcript whose fullText is empty
\* (or missing: line 164 reads both as '') and whose extractedQuotes is
\* absent or empty, the field extractedQuotes is present and is the empty list.
C15_EmptyTextMarked ==
    (Analysed /\ existing[1].fullText = "") =>
        /\ merged[1].hasQuotes
        /\ merged[1].extractedQuotes = <<>>

\* the labels of the rules a sentence matches
LabelsHit(sentence) ==
    LET bounds == boundaries(sentence)
    IN  {quote_patterns[k].category : k \in
            {m \in 1..Len(quote_patterns) :
                re_search(quote_patterns[m].words, sentence, bounds)}}

\* LabelsHit of the sample sentences, computed once and looked up
LabelsOfSample ==
    [sentence \in {strip(p) : p \in DOMAIN ScannedPieces} |-> LabelsHit(sentence)]

labels_hit(sentence) ==
    IF sentence \in DOMAIN LabelsOfSample THEN LabelsOfSample[sentence]
    ELSE LabelsHit(sentence)

\* the keep rule as stated: a rhetoric label, or two distinct topic labels
KeptByRule(sentence) ==
    /\ Len(sentence) >= 20
    /\ Len(sentence) <= 300
    /\ \/ labels_hit(sentence) \cap RhetoricLabels # {}
       \/ Cardinality(labels_hit(sentence) \ RhetoricLabels) >= 2

\* a sentence with one topic label and no rhetoric label
SingleTopic(sentence) ==
    /\ labels_hit(sentence) \cap RhetoricLabels = {}
    /\ Cardinality(labels_hit(sentence)) = 1

\* the trimmed pieces of a text, in text order
Sentences(text) ==
    LET pieces == split_sentences(text)
    IN  [i \in 1..Len(pieces) |-> strip(pieces[i])]

\* C16: the quotes of a transcript are its sentences of admissible length that
\* match a rhetoric rule or rules of two distinct topic labels, in text order
\* (the first 10 of them); a sentence with one topic label and no rhetoric
\* label is no quote; and counting the topic labels of a sentence with or
\* without repeats gives the same decision.
C16_KeepRule ==
    (Analysed /\ existing[1].fullText # "") =>
        LET sentences == Sentences(existing[1].fullText)
            kept == SelectSeq(sentences, KeptByRule)
            quotes == merged[1].extractedQuotes
        IN  /\ quote_texts(quotes) =
                  SubSeq(kept, 1, IF Len(kept) < 10 THEN Len(kept) ELSE 10)
            /\ \A k \in 1..Len(quotes) : ~SingleTopic(quotes[k].text)
            /\ \A i \in 1..Len(sentences) :
                  LET found == scanned_piece(sentences[i]).categories
                  IN  (Len(found) >= 2) <=> (Cardinality(Range(found)) >= 2)

\* a text was analysed that holds a sentence with a rhetoric label, one with
\* two topic labels and no rhetoric label, and one with a single topic label:
\* the first two are its quotes
C16_Witness ==
    /\ Analysed
    /\ existing[1].fullText = SentencePool[2] \o SentencePool[4] \o SentencePool[5]
    /\ SingleTopic(strip(" We must secure the border right now"))
    /\ labels_hit("The vote at the border was counted") = {"election", "immigration"}
    /\ quote_texts(merged[1].extractedQuotes) =
          <<"They are an invasion at our border", "The vote at the border was counted">>

\* a record as it is without its quotes
WithoutQuotes(t) == [t EXCEPT !.hasQuotes = FALSE, !.extractedQuotes = <<>>]

\* every record of the list old is at its position in the corpus file, with
\* the same quotes if it had any
KeptIn(old, file) ==
    \A i \in 1..Len(old) :
        /\ file.state = "whole"
        /\ i <= Len(file.transcripts)
        /\ WithoutQuotes(file.transcripts[i]) = WithoutQuotes(old[i])
        /\ has_quotes(old[i]) => file.transcripts[i] = old[i]

\* C17: when a run ends, every record of the corpus the run found (the one
\* the run before it left) is in the corpus it leaves, at the same position
\* and, if it had quotes, with the same quotes: no run deletes, moves or
\* replaces a record, whatever the incoming records are.
C17_RecordsKept ==
    [][(pc # "idle" /\ pc' = "idle") => KeptIn(existing, disk')]_vars

====
